---- MODULE Spec2Model ----
(***************************************************************************)
(* Model of test-projects/python-project/app.py: a Flask application with  *)
(* a Flask-Babel binding and one route, '/', whose handler index() looks   *)
(* up two translation keys and renders the template 'index.html'.          *)
(*                                                                         *)
(* The module body (lines 4-14) is modelled statement by statement         *)
(* (modpc), and each request served by the listener of app.run() walks     *)
(* through the framework's dispatch and the three statements of index().   *)
(* The development server handles requests in threads, so the steps of     *)
(* different requests interleave freely.  Only GET requests are modelled.  *)
(*                                                                         *)
(* Flask, Jinja and Flask-Babel are collaborators of the program: what     *)
(* they do for a call the program makes is modelled by the operators       *)
(* Gettext, RenderTemplate, Escape, MatchRequest and ServeStatic.  What    *)
(* the source leaves to the environment (the translation table, what the   *)
(* localisation library does for a missing key, the template folder, the   *)
(* static folder, the locale negotiated for a request, how the module is   *)
(* started) is drawn nondeterministically.                                 *)
(***************************************************************************)
EXTENDS Naturals, Sequences, FiniteSets, TLC

\* Number of requests the listener receives in one run of the model.
NumRequests == 2

ReqIds == 1..NumRequests

(***************************************************************************)
(* The data the program names.                                             *)
(***************************************************************************)
TitleKey == "welcome.title"
DescriptionKey == "welcome.description"
Keys == {TitleKey, DescriptionKey}
IndexTemplate == "index.html"

Locales == {"en", "de"}

\* A path is the sequence of its segments: '/' is <<>>.
RootPath == <<>>
Paths == {RootPath, <<"about">>, <<"static", "app.css">>}

\* What a caller may send along with the path: query string and body.
Inputs ==
    { [query |-> "", body |-> ""],
      [query |-> "title=Hi&lang=de", body |-> "title=Hi"] }

Unset == "<unset>"

(***************************************************************************)
(* Environment: translation tables, templates, static folder.              *)
(***************************************************************************)
FullTable(l) ==
    IF l = "en"
    THEN (TitleKey :> "Welcome" @@ DescriptionKey :> "Apps & more")
    ELSE (TitleKey :> "Willkommen" @@ DescriptionKey :> "Apps & mehr")

Restrict(f, D) == [k \in D |-> f[k]]

\* The default locale's table is complete; the other locale's may lack a key.
Tables(l) ==
    IF l = "en"
    THEN {FullTable(l)}
    ELSE {Restrict(FullTable(l), D) : D \in {Keys, {DescriptionKey}, {TitleKey}}}

Catalogs == {c \in [Locales -> UNION {Tables(l) : l \in Locales}] :
                \A l \in Locales : c[l] \in Tables(l)}

\* What the localisation library does for a key its table lacks.
MissingKeyPolicies == {"fallback", "raise"}

Lit(s) == [kind |-> "lit", text |-> s]
Var(n) == [kind |-> "var", text |-> n]
Bad(s) == [kind |-> "bad", text |-> s]

GoodTemplate ==
    <<Lit("<h1>"), Var("title"), Lit("</h1><p>"), Var("description"), Lit("</p>")>>
BrokenTemplate ==
    <<Lit("<h1>"), Var("title"), Bad("{{ 1/0 }}")>>
OtherTemplate ==
    <<Lit("<h2>"), Var("description"), Lit("</h2>")>>

\* The template folder: template name -> template.
TemplateFolders ==
    { (IndexTemplate :> GoodTemplate @@ "about.html" :> OtherTemplate),
      (IndexTemplate :> BrokenTemplate @@ "about.html" :> OtherTemplate),
      ("about.html" :> OtherTemplate) }

StaticFolders == { {}, {"app.css"} }

(***************************************************************************)
(* Collaborators.                                                          *)
(***************************************************************************)
Ok(v) == [ok |-> TRUE, val |-> v]
Raised == [ok |-> FALSE, val |-> Unset]

\* flask_babel.gettext: the table's entry for the key under the locale; for
\* a key the table lacks, the key itself or an exception.
Gettext(cat, policy, l, key) ==
    IF key \in DOMAIN cat[l] THEN Ok(cat[l][key])
    ELSE IF policy = "fallback" THEN Ok(key)
    ELSE Raised

\* Jinja's autoescape of a value substituted into an .html template.
Escape(s) ==
    CASE s = "Apps & more" -> "Apps &amp; more"
      [] s = "Apps & mehr" -> "Apps &amp; mehr"
      [] OTHER -> s

\* flask.render_template(name, **ctx): raises for a template the folder
\* lacks and for a template whose evaluation fails; otherwise the
\* template's literals with each variable replaced by its escaped value
\* (a variable the context lacks renders as the empty string).
RenderTemplate(folder, name, ctx) ==
    IF name \notin DOMAIN folder THEN Raised
    ELSE LET tpl == folder[name] IN
         IF \E i \in 1..Len(tpl) : tpl[i].kind = "bad" THEN Raised
         ELSE Ok([i \in 1..Len(tpl) |->
                    IF tpl[i].kind = "lit" THEN tpl[i].text
                    ELSE IF tpl[i].text \in DOMAIN ctx THEN Escape(ctx[tpl[i].text])
                    ELSE ""])

\* URL rules: the one Flask(__name__) adds for the static folder and the one
\* @app.route('/') adds for index.
StaticRule == [prefix |-> <<"static">>, rest |-> TRUE, endpoint |-> "static"]
IndexRuleCatchAll == [prefix |-> RootPath, rest |-> TRUE, endpoint |-> "index"]
IndexRule == [prefix |-> RootPath, rest |-> FALSE, endpoint |-> "index"]

Matches(rule, path) ==
    IF rule.rest
    THEN /\ Len(path) > Len(rule.prefix)
         /\ SubSeq(path, 1, Len(rule.prefix)) = rule.prefix
    ELSE path = rule.prefix

\* The endpoint the URL map gives a path, "none" when no rule matches.
MatchRequest(map, path) ==
    IF \E rule \in map : Matches(rule, path)
    THEN (CHOOSE rule \in map : Matches(rule, path)).endpoint
    ELSE "none"

NoResponse == [status |-> 0, body |-> <<>>]
NotFound == [status |-> 404, body |-> <<"Not Found">>]
ServerError == [status |-> 500, body |-> <<"Internal Server Error">>]
Success(body) == [status |-> 200, body |-> body]

\* The static view: the file's content, or not found.
ServeStatic(files, path) ==
    IF Len(path) = 2 /\ path[2] \in files
    THEN Success(<<"file:" \o path[2]>>)
    ELSE NotFound

(***************************************************************************)
(* State.                                                                  *)
(***************************************************************************)
VARIABLES
    runAsMain,      \* __name__ = '__main__'
    modpc,          \* the module statement to execute next
    urlMap,         \* app.url_map: the registered rules
    babelBound,     \* babel = Babel(app) has been executed
    listener,       \* app.run() is serving
    catalog,        \* the translation table of each locale
    missingKey,     \* the localisation library's answer to a missing key
    templates,      \* the template folder
    staticFiles,    \* the static folder
    req             \* the requests: position, locals of index(), response

appState == <<urlMap, babelBound, catalog, missingKey, templates, staticFiles>>
vars == <<runAsMain, modpc, listener, req, urlMap, babelBound, catalog,
          missingKey, templates, staticFiles>>

NoCtx == [title |-> Unset, description |-> Unset]

IdleRequest ==
    [pc |-> "idle", path |-> RootPath, input |-> [query |-> "", body |-> ""],
     locale |-> Unset, title |-> Unset, description |-> Unset,
     ctx |-> NoCtx, rendered |-> <<>>, response |-> NoResponse, calls |-> <<>>]

Init ==
    /\ runAsMain \in BOOLEAN
    /\ modpc = "line4"
    /\ urlMap = {}
    /\ babelBound = FALSE
    /\ listener = FALSE
    /\ catalog \in Catalogs
    /\ missingKey \in MissingKeyPolicies
    /\ templates \in TemplateFolders
    /\ staticFiles \in StaticFolders
    /\ req = [r \in ReqIds |-> IdleRequest]

(***************************************************************************)
(* The module body, lines 4-14.                                            *)
(***************************************************************************)
\* app = Flask(__name__): the constructor registers the static rule.
CreateApp ==
    /\ modpc = "line4"
    /\ urlMap' = {StaticRule}
    /\ modpc' = "line5"
    /\ UNCHANGED <<runAsMain, listener, req, babelBound, catalog, missingKey,
                   templates, staticFiles>>

\* babel = Babel(app)
BindBabel ==
    /\ modpc = "line5"
    /\ babelBound' = TRUE
    /\ modpc' = "line7"
    /\ UNCHANGED <<runAsMain, listener, req, urlMap, catalog, missingKey,
                   templates, staticFiles>>

\* @app.route('/') def index(): ...
RegisterIndex ==
    /\ modpc = "line7"
    /\ urlMap' = urlMap \cup {IndexRule}
    /\ modpc' = "line13"
    /\ UNCHANGED <<runAsMain, listener, req, babelBound, catalog, missingKey,
                   templates, staticFiles>>

\* if __name__ == '__main__':
MainGuardInverted(main) == IF main THEN "end" ELSE "line14"
MainGuard(main) == IF main THEN "line14" ELSE "end"

CheckMain ==
    /\ modpc = "line13"
    /\ modpc' = MainGuard(runAsMain)
    /\ UNCHANGED <<runAsMain, listener, req, urlMap, babelBound, catalog,
                   missingKey, templates, staticFiles>>

\* app.run(): the call starts the listener and does not return.
RunApp ==
    /\ modpc = "line14"
    /\ listener' = TRUE
    /\ modpc' = "serving"
    /\ UNCHANGED <<runAsMain, req, urlMap, babelBound, catalog, missingKey,
                   templates, staticFiles>>

(***************************************************************************)
(* A request.                                                              *)
(***************************************************************************)
Call(op, arg) == <<op, arg>>

\* A step of request r touches nothing but r's own record.
Update(r, new) ==
    /\ req' = [req EXCEPT ![r] = new]
    /\ UNCHANGED <<runAsMain, modpc, listener, urlMap, babelBound, catalog,
                   missingKey, templates, staticFiles>>

\* The listener accepts a request; requests are numbered in the order in
\* which they are accepted.
Arrive(r) ==
    /\ listener
    /\ req[r].pc = "idle"
    /\ \A q \in ReqIds : q < r => req[q].pc # "idle"
    /\ \E p \in Paths, i \in Inputs :
          Update(r, [req[r] EXCEPT !.pc = "arrived", !.path = p, !.input = i])

\* The framework's dispatch: the rule of the path chooses the view.
Dispatch(r) ==
    /\ req[r].pc = "arrived"
    /\ LET endpoint == MatchRequest(urlMap, req[r].path) IN
       CASE endpoint = "index" ->
              Update(r, [req[r] EXCEPT !.pc = "title"])
         [] endpoint = "static" ->
              LET resp == ServeStatic(staticFiles, req[r].path) IN
              Update(r, [req[r] EXCEPT !.pc = "done", !.response = resp,
                           !.calls = Append(@, Call("respond", "static"))])
         [] OTHER ->
              Update(r, [req[r] EXCEPT !.pc = "done", !.response = NotFound,
                           !.calls = Append(@, Call("respond", "not found"))])

\* The arguments index() passes to its collaborators.
TitleArgWrong == DescriptionKey
TitleArg == TitleKey

DescriptionArgWrong == TitleKey
DescriptionArg == DescriptionKey

TemplateArgWrong == "about.html"
TemplateArg == IndexTemplate

RenderContextSwapped(t, d) == [title |-> d, description |-> t]
RenderContext(t, d) == [title |-> t, description |-> d]

\* _('welcome.title') for request r under locale l.
LookupTitleFromQuery(r, l) ==
    IF req[r].input.query # "" THEN Ok(req[r].input.query)
    ELSE Gettext(catalog, missingKey, l, TitleArg)
LookupTitle(r, l) == Gettext(catalog, missingKey, l, TitleArg)

\* _('welcome.description') for request r under locale l.
LookupDescriptionCatching(r, l) ==
    LET res == Gettext(catalog, missingKey, l, DescriptionArg)
    IN IF res.ok THEN res ELSE Ok(DescriptionArg)
LookupDescription(r, l) == Gettext(catalog, missingKey, l, DescriptionArg)

\* A variant of line 9 that keeps title in a module-level global.
IndexLookupTitleShared(r) ==
    /\ req[r].pc = "title"
    /\ \E l \in Locales :
          LET res == LookupTitle(r, l)
              log == Append(req[r].calls, Call("gettext", TitleArg))
          IN /\ req' = [q \in ReqIds |->
                          IF q = r
                          THEN [req[r] EXCEPT
                                  !.pc = IF res.ok THEN "description" ELSE "error",
                                  !.locale = l, !.title = res.val, !.calls = log]
                          ELSE [req[q] EXCEPT !.title = res.val]]
             /\ UNCHANGED <<runAsMain, modpc, listener, urlMap, babelBound,
                            catalog, missingKey, templates, staticFiles>>

\* title = _('welcome.title').  The first lookup of a request makes the
\* localisation library negotiate the request's locale.
IndexLookupTitle(r) ==
    /\ req[r].pc = "title"
    /\ \E l \in Locales :
          LET res == LookupTitle(r, l)
              log == Append(req[r].calls, Call("gettext", TitleArg))
          IN IF res.ok
             THEN Update(r, [req[r] EXCEPT !.pc = "description", !.locale = l,
                               !.title = res.val, !.calls = log])
             ELSE Update(r, [req[r] EXCEPT !.pc = "error", !.locale = l,
                               !.calls = log])

\* description = _('welcome.description')
IndexLookupDescription(r) ==
    /\ req[r].pc = "description"
    /\ LET res == LookupDescription(r, req[r].locale)
           log == Append(req[r].calls, Call("gettext", DescriptionArg))
       IN IF res.ok
          THEN Update(r, [req[r] EXCEPT !.pc = "render",
                            !.description = res.val, !.calls = log])
          ELSE Update(r, [req[r] EXCEPT !.pc = "error", !.calls = log])

\* A variant of line 11 that stores the rendered page back as the template.
IndexRenderCaching(r) ==
    /\ req[r].pc = "render"
    /\ LET ctx == RenderContext(req[r].title, req[r].description)
           res == RenderTemplate(templates, TemplateArg, ctx)
           log == Append(req[r].calls, Call("render", TemplateArg))
       IN /\ req' = [req EXCEPT ![r] =
                       [@ EXCEPT !.pc = IF res.ok THEN "respond" ELSE "error",
                                 !.ctx = ctx, !.calls = log,
                                 !.rendered = IF res.ok THEN res.val ELSE <<>>]]
          /\ templates' = IF res.ok
                          THEN [templates EXCEPT ![TemplateArg] =
                                  [i \in 1..Len(res.val) |-> Lit(res.val[i])]]
                          ELSE templates
          /\ UNCHANGED <<runAsMain, modpc, listener, urlMap, babelBound,
                         catalog, missingKey, staticFiles>>

\* return render_template('index.html', title=title, description=description)
IndexRender(r) ==
    /\ req[r].pc = "render"
    /\ LET ctx == RenderContext(req[r].title, req[r].description)
           res == RenderTemplate(templates, TemplateArg, ctx)
           log == Append(req[r].calls, Call("render", TemplateArg))
       IN IF res.ok
          THEN Update(r, [req[r] EXCEPT !.pc = "respond", !.ctx = ctx,
                            !.rendered = res.val, !.calls = log])
          ELSE Update(r, [req[r] EXCEPT !.pc = "error", !.ctx = ctx,
                            !.calls = log])

\* The framework turns the view's return value into the response.
Respond(r) ==
    /\ req[r].pc = "respond"
    /\ Update(r, [req[r] EXCEPT !.pc = "done",
                    !.response = Success(req[r].rendered),
                    !.calls = Append(@, Call("respond", "ok"))])

\* An exception index() let through: the framework's server-error response.
HandleException(r) ==
    /\ req[r].pc = "error"
    /\ Update(r, [req[r] EXCEPT !.pc = "done", !.response = ServerError,
                    !.calls = Append(@, Call("respond", "error"))])

IndexStep(r) ==
    \/ IndexLookupTitle(r)
    \/ IndexLookupDescription(r)
    \/ IndexRender(r)

RequestStep(r) ==
    \/ Dispatch(r)
    \/ IndexStep(r)
    \/ Respond(r)
    \/ HandleException(r)

Next ==
    \/ CreateApp
    \/ BindBabel
    \/ RegisterIndex
    \/ CheckMain
    \/ RunApp
    \/ \E r \in ReqIds : Arrive(r)
    \/ \E r \in ReqIds : Dispatch(r)
    \/ \E r \in ReqIds : IndexLookupTitle(r)
    \/ \E r \in ReqIds : IndexLookupDescription(r)
    \/ \E r \in ReqIds : IndexRender(r)
    \/ \E r \in ReqIds : Respond(r)
    \/ \E r \in ReqIds : HandleException(r)

Spec == Init /\ [][Next]_vars

ModuleStep ==
    \/ CreateApp
    \/ BindBabel
    \/ RegisterIndex
    \/ CheckMain
    \/ RunApp

\* The interpreter runs the module body to its end, and the development
\* server keeps running the requests it accepted: as long as a statement of
\* the module or a step of some accepted request is pending, one is taken.
\* Nothing obliges a client to send a request.
Fairness ==
    /\ WF_vars(ModuleStep)
    /\ WF_vars(\E r \in ReqIds : RequestStep(r))

FairSpec == Init /\ [][Next]_vars /\ Fairness

(***************************************************************************)
(* What a request to '/' is to yield, computed from the environment alone. *)
(***************************************************************************)
Done(r) == req[r].pc = "done"
IsRoot(r) == req[r].pc # "idle" /\ req[r].path = RootPath
Negotiated(r) == req[r].locale # Unset

TitleOf(l) == Gettext(catalog, missingKey, l, TitleKey)
DescriptionOf(l) == Gettext(catalog, missingKey, l, DescriptionKey)
PageOf(l) ==
    RenderTemplate(templates, IndexTemplate,
                   [title |-> TitleOf(l).val, description |-> DescriptionOf(l).val])
AllSucceed(l) == TitleOf(l).ok /\ DescriptionOf(l).ok /\ PageOf(l).ok

CallTitle == Call("gettext", TitleKey)
CallDescription == Call("gettext", DescriptionKey)
CallRender == Call("render", IndexTemplate)
RespondOk == Call("respond", "ok")
RespondError == Call("respond", "error")

\* The calls of one run of index() under locale l, and the response's.
CallPath(l) ==
    IF ~TitleOf(l).ok THEN <<CallTitle, RespondError>>
    ELSE IF ~DescriptionOf(l).ok THEN <<CallTitle, CallDescription, RespondError>>
    ELSE IF ~PageOf(l).ok
         THEN <<CallTitle, CallDescription, CallRender, RespondError>>
    ELSE <<CallTitle, CallDescription, CallRender, RespondOk>>

\* The response a request gets when it is the only one handled.
AloneResponse(path, l) ==
    IF path = RootPath
    THEN IF AllSucceed(l) THEN Success(PageOf(l).val) ELSE ServerError
    ELSE IF Len(path) > 1 /\ path[1] = "static"
         THEN ServeStatic(staticFiles, path)
    ELSE NotFound

IsPrefix(s, t) == Len(s) <= Len(t) /\ SubSeq(t, 1, Len(s)) = s
Occurrences(s, e) == Cardinality({i \in 1..Len(s) : s[i] = e})

(***************************************************************************)
(* Claims.                                                                 *)
(***************************************************************************)

\* C1: a request GET / whose two lookups and rendering all succeed is
\* answered with status 200 and the rendering of 'index.html' with title
\* bound to the translation of 'welcome.title' and description bound to the
\* translation of 'welcome.description'.
C1_SuccessfulIndexResponse ==
    \A r \in ReqIds :
        (Done(r) /\ IsRoot(r) /\ AllSucceed(req[r].locale)) =>
            /\ req[r].response.status = 200
            /\ req[r].response.body = PageOf(req[r].locale).val
            /\ req[r].ctx = [title |-> TitleOf(req[r].locale).val,
                             description |-> DescriptionOf(req[r].locale).val]

C1_Witness ==
    \E r \in ReqIds :
        /\ Done(r) /\ IsRoot(r) /\ req[r].locale = "de"
        /\ req[r].response =
              Success(<<"<h1>", "Willkommen", "</h1><p>", "Apps &amp; mehr", "</p>">>)

C3_FailurePropagates ==
    \A r \in ReqIds :
        (Done(r) /\ IsRoot(r) /\ ~AllSucceed(req[r].locale)) =>
            LET log == req[r].calls IN
            /\ req[r].response = ServerError
            /\ req[r].rendered = <<>>
            /\ \A i \in 1..Len(log) : Occurrences(log, log[i]) = 1
            /\ log[Len(log)] = RespondError
            /\ Len(log) >= 2
            /\ log[Len(log) - 1] =
                  (IF ~TitleOf(req[r].locale).ok THEN CallTitle
                   ELSE IF ~DescriptionOf(req[r].locale).ok THEN CallDescription
                   ELSE CallRender)

C3_Witness ==
    \E r \in ReqIds :
        /\ Done(r) /\ IsRoot(r)
        /\ TitleOf(req[r].locale).ok /\ ~DescriptionOf(req[r].locale).ok
        /\ req[r].response = ServerError

\* C4: when 'welcome.title' is absent from the translation table, a request
\* GET / either renders with title equal to the key string 'welcome.title'
\* or ends in the error response.
C4_MissingTitleKeyOrError ==
    \A r \in ReqIds :
        (Done(r) /\ IsRoot(r) /\ TitleKey \notin DOMAIN catalog[req[r].locale]) =>
            \/ req[r].response = ServerError
            \/ /\ req[r].response.status = 200
               /\ req[r].ctx.title = TitleKey
               /\ req[r].response.body =
                     RenderTemplate(templates, IndexTemplate,
                        [title |-> TitleKey,
                         description |-> DescriptionOf(req[r].locale).val]).val

C4_Witness ==
    \E r \in ReqIds :
        /\ Done(r) /\ IsRoot(r)
        /\ TitleKey \notin DOMAIN catalog[req[r].locale]
        /\ req[r].response =
              Success(<<"<h1>", "welcome.title", "</h1><p>", "Apps &amp; mehr", "</p>">>)

\* C5: two requests GET / that differ only in query or body, handled under
\* the same locale, translation table and templates, get the same status
\* and body.
C5_InputIndependent ==
    \A r1, r2 \in ReqIds :
        (/\ Done(r1) /\ IsRoot(r1)
         /\ Done(r2) /\ IsRoot(r2)
         /\ req[r1].locale = req[r2].locale) =>
            req[r1].response = req[r2].response

C5_Witness ==
    \E r1, r2 \in ReqIds :
        /\ Done(r1) /\ IsRoot(r1) /\ Done(r2) /\ IsRoot(r2)
        /\ req[r1].locale = req[r2].locale
        /\ req[r1].input.query # req[r2].input.query
        /\ req[r1].input.body # req[r2].input.body
        /\ req[r1].response.status = 200

\* C6: under every interleaving of the steps of concurrent requests, each
\* request's locals and response are those of the request handled alone.
C6_RequestsIndependent ==
    \A r \in ReqIds :
        LET l == req[r].locale IN
        /\ req[r].pc \in {"idle", "arrived", "title"} =>
              /\ req[r].title = Unset
              /\ req[r].description = Unset
        /\ req[r].pc \in {"description", "render", "respond"} =>
              req[r].title = TitleOf(l).val
        /\ req[r].pc \in {"render", "respond"} =>
              req[r].description = DescriptionOf(l).val
        /\ req[r].pc = "respond" => req[r].rendered = PageOf(l).val
        /\ Done(r) => req[r].response = AloneResponse(req[r].path, l)

C6_Witness ==
    \E r1, r2 \in ReqIds :
        /\ req[r1].pc = "respond" /\ req[r2].pc = "render"
        /\ req[r1].locale # req[r2].locale
        /\ req[r1].rendered # <<>>

\* The listener is up if the module runs as main, and every accepted request
\* GET / has its response, a 200 when the collaborators succeed.
Answered ==
    /\ runAsMain => listener
    /\ \A r \in ReqIds :
          IsRoot(r) =>
              IF Done(r)
              THEN AllSucceed(req[r].locale) => req[r].response.status = 200
              ELSE FALSE

\* C7: run as the main program the module starts the listener, and then
\* every request GET / is eventually answered, with 200 when the
\* collaborators succeed (requests are finitely many and a response is
\* final, so "every request is eventually answered" is "from some point on
\* every accepted request has its answer"); imported only, the application
\* and its route exist and the listener is never started.
C7_MainStartsListener ==
    /\ [](~runAsMain => ~listener)
    /\ [](modpc = "end" => (~runAsMain /\ IndexRule \in urlMap /\ babelBound))
    /\ <>[]Answered

C7_Witness ==
    /\ runAsMain /\ listener /\ modpc = "serving"
    /\ \E r \in ReqIds : Done(r) /\ IsRoot(r) /\ req[r].response.status = 200

\* C8: a step of handling a request leaves the application's state (routes,
\* Babel binding, translation table, templates, static folder) as it was,
\* whether the request ends in 200 or in an error.
C8_HandlingKeepsAppState ==
    [][(\E r \in ReqIds : req'[r] # req[r]) => UNCHANGED appState]_vars

C8_Witness ==
    \E r1, r2 \in ReqIds :
        /\ Done(r1) /\ IsRoot(r1) /\ req[r1].response.status = 200
        /\ Done(r2) /\ IsRoot(r2) /\ req[r2].response = ServerError
        /\ urlMap = {StaticRule, IndexRule} /\ babelBound

\* C9: a request GET / makes its calls in one fixed order: the lookup of
\* 'welcome.title', then the lookup of 'welcome.description', then one
\* rendering of 'index.html', then one response; a call that raises is
\* followed by the response alone.
C9_SingleCallPath ==
    \A r \in ReqIds :
        LET log == req[r].calls IN
        /\ req[r].pc \in {"idle", "arrived", "title"} => log = <<>>
        /\ (IsRoot(r) /\ Negotiated(r)) =>
              /\ IsPrefix(log, CallPath(req[r].locale))
              /\ req[r].pc = "description" => log = <<CallTitle>>
              /\ req[r].pc = "render" => log = <<CallTitle, CallDescription>>
              /\ req[r].pc = "respond" =>
                    log = <<CallTitle, CallDescription, CallRender>>
              /\ req[r].pc = "error" =>
                    /\ Len(log) \in 1..3
                    /\ log = SubSeq(CallPath(req[r].locale), 1, Len(log))
                    /\ Len(CallPath(req[r].locale)) = Len(log) + 1
              /\ Done(r) => log = CallPath(req[r].locale)

C9_Witness ==
    \E r1, r2 \in ReqIds :
        /\ Done(r1) /\ req[r1].calls = <<CallTitle, CallDescription, CallRender, RespondOk>>
        /\ Done(r2) /\ req[r2].calls = <<CallTitle, RespondError>>

====
